---------------------------- MODULE Spec2Model ----------------------------
(***************************************************************************)
(* State-machine model of myopenclaw/monitoring-system.                     *)
(*                                                                         *)
(* The repository holds two programs that share no state:                  *)
(*   - the dashboard server (src/unnamed/part_001): an Express app whose   *)
(*     GET /api/status handler measures the local system, probes the       *)
(*     configured services concurrently and answers with one snapshot;     *)
(*   - the periodic check (src/unnamed/part_000): runRealMonitoring, which *)
(*     collects metrics, evaluates the alert rules, appends the check to   *)
(*     the history file and writes an HTML report.                         *)
(*                                                                         *)
(* Numbers that are fractional in the code are kept exact as scaled        *)
(* integers (tenths of a percent, hundredths of a load unit) or as         *)
(* fractions num/den; Math.round and toFixed are modelled as rounding      *)
(* half up on the exact value.                                             *)
(***************************************************************************)
EXTENDS Integers, Sequences, FiniteSets, TLC

VARIABLES
  \* ---- dashboard server (part_001) ----
  dpc,        \* position of the request being served: "idle", "awaiting",
              \* "probing", "responded", "hung" (never answered), "crashed"
  hreq,       \* the :service parameter of a GET /api/health request, or "none"
  sys,        \* value returned by getSystemMetrics() for the request
  results,    \* results[i]: value of the promise checkService(SERVICES[i]), or Unsettled
  order,      \* indices of the remote probes in the order they settled
  sent,       \* sent[i]: outbound requests issued for target i during the request
  ended,      \* ended[i]: how the outbound request for target i ended (history variable)
  dBase,      \* the history when the request arrived (history variable)
  resp,       \* the response written to res, or NoResponse
  \* ---- periodic check (part_000) ----
  logFile,    \* monitoring_logs_real.json: absent, JSON content, or unparseable
  reportFile, \* monitoring_report_real.html: absent, or what was rendered
  clock,      \* the wall clock read by new Date()
  runs,       \* runs of runRealMonitoring started so far
  mpc,        \* mpc[p]: position of run p inside runRealMonitoring
  mMetrics,   \* mMetrics[p]: the local 'metrics'
  mAlerts,    \* mAlerts[p]: the local 'alerts'
  mLogs,      \* mLogs[p]: the local 'logs' of logCheck, between its read and write
  mSummary,   \* mSummary[p]: the local 'summary'
  mResult,    \* mResult[p]: the value runRealMonitoring returned
  mSource,    \* mSource[p]: which branch of getRealSystemMetrics produced metrics
  mInput,     \* mInput[p]: what the OS reported to run p (history variable)
  mBase,      \* mBase[p]: the history when run p started (history variable)
  appended,   \* every check logCheck has written, in order (history variable)
  host,       \* the machine: os.hostname(), os.platform(), os.arch()
  \* ---- which program runs ----
  program     \* "dashboard" or "monitor"

dashVars == <<dpc, hreq, sys, results, order, sent, ended, dBase, resp>>
monVars == <<logFile, reportFile, clock, runs, mpc, mMetrics, mAlerts, mLogs,
             mSummary, mResult, mSource, mInput, mBase, appended, host>>
vars == <<dashVars, monVars, program>>

-----------------------------------------------------------------------------
(* Rounding helpers.                                                        *)

\* Math.round(num/den) for num >= 0, den > 0: the nearest integer, halves up.
MathRound(num, den) == (2 * num + den) \div (2 * den)

\* (num/den).toFixed(1), as the number of tenths it denotes.
ToFixed1(num, den) == MathRound(10 * num, den)


-----------------------------------------------------------------------------
(* Dashboard server: configuration and pure functions (part_001).           *)

\* Object.entries(SERVICES): the configured targets in insertion order.
SERVICES ==
  << [name |-> "ollama-api",       url |-> "http://localhost:3002/health"],
     [name |-> "super-product",    url |-> "http://localhost:3004/health"],
     [name |-> "kimi-integration", url |-> "http://localhost:3006/health"],
     [name |-> "system",           url |-> "local"] >>

Targets == 1..Len(SERVICES)
RemoteTargets == {i \in Targets : SERVICES[i].url # "local"}

\* The timeout handed to axios.get, in milliseconds.
TIMEOUT_MS == 5000

\* url.replace('http://localhost:', 'localhost:')
UrlReplace(url) ==
  CASE url = "http://localhost:3002/health" -> "localhost:3002/health"
    [] url = "http://localhost:3004/health" -> "localhost:3004/health"
    [] url = "http://localhost:3006/health" -> "localhost:3006/health"
    [] OTHER -> url

\* name.includes('ollama')
IncludesOllama(name) == name \in {"ollama-api"}

\* What the operating system can report to getSystemMetrics.  Memory is in
\* units of 1/625 GB, disk blocks are 1 MiB, cpu times are ticks.
MemInputs ==
  {[totalMem |-> 10000, freeMem |-> f] : f \in {5000, 3000, 2990, 2000, 996, 994}}
CpuInputs ==
  { << [user |-> 10, nice |-> 0, sys |-> 10, idle |-> 180, irq |-> 0],
       [user |-> 20, nice |-> 0, sys |-> 20, idle |-> 160, irq |-> 0] >>,
    << [user |-> 100, nice |-> 0, sys |-> 40, idle |-> 60, irq |-> 0],
       [user |-> 100, nice |-> 0, sys |-> 40, idle |-> 60, irq |-> 0] >>,
    << [user |-> 100, nice |-> 1, sys |-> 40, idle |-> 59, irq |-> 0],
       [user |-> 100, nice |-> 0, sys |-> 40, idle |-> 60, irq |-> 0] >>,
    << [user |-> 150, nice |-> 0, sys |-> 35, idle |-> 10, irq |-> 5],
       [user |-> 150, nice |-> 0, sys |-> 30, idle |-> 20, irq |-> 0] >> }
DiskInputs ==
  {[blocks |-> 102400, bfree |-> b, bsize |-> 1] : b \in {51200, 2048}}
UptimeInputs == {93784}
MetricInputs ==
  {[mem |-> m, cpus |-> c, disk |-> d, uptime |-> u, statfsThrows |-> t] :
     m \in MemInputs, c \in CpuInputs, d \in DiskInputs, u \in UptimeInputs,
     t \in BOOLEAN}

\* cpus.reduce(...) / cpus.length as an exact fraction of a percent.
RECURSIVE CpuBusySum(_)
CpuBusySum(cpus) ==
  IF cpus = << >> THEN [num |-> 0, den |-> 1]
  ELSE LET acc   == CpuBusySum(SubSeq(cpus, 1, Len(cpus) - 1))
           t     == cpus[Len(cpus)]
           total == t.user + t.nice + t.sys + t.idle + t.irq
       IN  [num |-> acc.num * total + (total - t.idle) * 100 * acc.den,
            den |-> acc.den * total]

CpuUsage(cpus) ==
  LET s == CpuBusySum(cpus) IN [num |-> s.num, den |-> s.den * Len(cpus)]

\* f > k for a fraction f
FracGt(f, k) == f.num > k * f.den

\* getSystemMetrics() on a system for which the OS calls succeed.
GetSystemMetrics(in) ==
  LET totalMem    == in.mem.totalMem
      freeMem     == in.mem.freeMem
      usedMem     == totalMem - freeMem
      memPercent  == ToFixed1(100 * usedMem, totalMem)
      totalDisk   == in.disk.blocks * in.disk.bsize
      freeDisk    == in.disk.bfree * in.disk.bsize
      usedDisk    == totalDisk - freeDisk
      diskPercent == ToFixed1(100 * usedDisk, totalDisk)
      cpuUsage    == CpuUsage(in.cpus)
      health      == IF memPercent > 900 \/ FracGt(cpuUsage, 90) THEN "critical"
                     ELSE IF memPercent > 700 \/ FracGt(cpuUsage, 70) THEN "warning"
                     ELSE "healthy"
  IN  [cpu    |-> ToFixed1(cpuUsage.num, cpuUsage.den),
       memory |-> [total   |-> ToFixed1(totalMem, 625),
                   used    |-> ToFixed1(usedMem, 625),
                   free    |-> ToFixed1(freeMem, 625),
                   percent |-> memPercent],
       disk   |-> [total   |-> ToFixed1(totalDisk, 1024),
                   used    |-> ToFixed1(usedDisk, 1024),
                   free    |-> ToFixed1(freeDisk, 1024),
                   percent |-> diskPercent],
       uptime |-> [days    |-> in.uptime \div 86400,
                   hours   |-> (in.uptime % 86400) \div 3600,
                   minutes |-> (in.uptime % 3600) \div 60],
       health |-> health]

NoMetrics == [health |-> "none"]

\* How one outbound request can end, with the time it took (ms).
Latencies == {3, 250}
RemoteOutcomes ==
  {[kind |-> "response", code |-> c, elapsed |-> e] : c \in {200, 503}, e \in Latencies}
  \cup {[kind |-> "network", code |-> 0, elapsed |-> e] : e \in Latencies}
  \cup {[kind |-> "timeout", code |-> 0, elapsed |-> TIMEOUT_MS]}

\* A client that resolves on any response, whatever its status.
AxiosGetAnyStatus(outcome) ==
  IF outcome.kind = "response"
  THEN [resolved |-> TRUE, message |-> ""]
  ELSE [resolved |-> FALSE,
        message  |-> IF outcome.kind = "timeout" THEN "timeout of 5000ms exceeded"
                     ELSE "connect ECONNREFUSED"]

\* axios.get(url, {timeout: 5000}): resolves on a 2xx response (axios' default
\* validateStatus), rejects with an Error otherwise.
AxiosGet(outcome) ==
  IF outcome.kind = "response" /\ outcome.code >= 200 /\ outcome.code < 300
  THEN [resolved |-> TRUE, message |-> ""]
  ELSE [resolved |-> FALSE,
        message  |-> CASE outcome.kind = "response"
                            -> "Request failed with status code"
                       [] outcome.kind = "timeout"
                            -> "timeout of 5000ms exceeded"
                       [] OTHER -> "connect ECONNREFUSED"]

\* A checkService whose catch leaves the error message out.
CheckServiceNoError(name, url, outcome) ==
  IF url = "local"
  THEN [name |-> name, url |-> "System", status |-> "healthy",
        responseTime |-> 1, timestamp |-> 0, emoji |-> "computer"]
  ELSE IF AxiosGet(outcome).resolved
  THEN [name |-> name, url |-> UrlReplace(url), status |-> "healthy",
        responseTime |-> outcome.elapsed, version |-> "1.0.0",
        timestamp |-> outcome.elapsed,
        emoji |-> IF IncludesOllama(name) THEN "llama" ELSE "picture"]
  ELSE [name |-> name, url |-> UrlReplace(url), status |-> "critical",
        responseTime |-> outcome.elapsed, error |-> "",
        timestamp |-> outcome.elapsed, emoji |-> "warning"]

\* checkService(name, url), given how the outbound request (if one is made)
\* ended.  Timestamps are milliseconds since the request was dispatched.
CheckService(name, url, outcome) ==
  IF url = "local"
  THEN [name |-> name, url |-> "System", status |-> "healthy",
        responseTime |-> 1, timestamp |-> 0, emoji |-> "computer"]
  ELSE LET r == AxiosGet(outcome) IN
       IF r.resolved
       THEN [name |-> name, url |-> UrlReplace(url), status |-> "healthy",
             responseTime |-> outcome.elapsed, version |-> "1.0.0",
             timestamp |-> outcome.elapsed,
             emoji |-> IF IncludesOllama(name) THEN "llama" ELSE "picture"]
       ELSE [name |-> name, url |-> UrlReplace(url), status |-> "critical",
             responseTime |-> outcome.elapsed, error |-> r.message,
             timestamp |-> outcome.elapsed, emoji |-> "warning"]

NoOutcome == [kind |-> "none", code |-> 0, elapsed |-> 0]
Unsettled == [status |-> "pending"]
NoResponse == [route |-> "none", code |-> 0, kind |-> "none", body |-> [none |-> TRUE]]

\* A join that collects the results as they arrive.
ServiceChecksByCompletion(res, ord) ==
  [k \in Targets |-> IF k <= Len(ord) THEN res[ord[k]] ELSE res[k]]

\* A join in which one failed probe marks every remote entry failed.
ServiceChecksContaminated(res, ord) ==
  [i \in Targets |->
     IF i \in RemoteTargets /\ (\E j \in Targets : res[j].status = "critical")
     THEN [res[i] EXCEPT !.status = "critical"]
     ELSE res[i]]

\* The fulfilled value of Promise.all over the probes, read by position.
ServiceChecks(res, ord) == [i \in Targets |-> res[i]]

PlatformInfo == [name |-> "AI Business Platform", repositories |-> 12,
                 models |-> 6, agents |-> 53]


-----------------------------------------------------------------------------
(* Dashboard server: the handlers (part_001).                               *)

\* What a cycle remembers of the history it started from.
NoBase == [appended |-> 0, totalChecks |-> 0, checks |-> 0]
HistoryBase ==
  [appended    |-> Len(appended),
   totalChecks |-> IF logFile.kind = "json" THEN logFile.metrics.totalChecks ELSE 0,
   checks      |-> IF logFile.kind = "json" THEN Len(logFile.checks) ELSE 0]

DashInit ==
  /\ dpc = "idle"
  /\ hreq = "none"
  /\ sys = NoMetrics
  /\ results = [i \in Targets |-> Unsettled]
  /\ order = << >>
  /\ sent = [i \in Targets |-> 0]
  /\ ended = [i \in Targets |-> NoOutcome]
  /\ dBase = NoBase
  /\ resp = NoResponse

\* Largest elapsed time among the probes that have settled so far.
SettledBy(i) == i \in RemoteTargets /\ results[i] # Unsettled
LatestSettle ==
  IF \E i \in Targets : SettledBy(i)
  THEN CHOOSE e \in {results[i].responseTime : i \in {j \in Targets : SettledBy(j)}} :
         \A j \in Targets : SettledBy(j) => results[j].responseTime <= e
  ELSE 0

\* GET /api/status up to the await: getSystemMetrics(), then every
\* checkService call runs to its first await (the outbound request is issued;
\* the 'local' pseudo-target returns at once).  A throw of getSystemMetrics
\* lands in the handler's catch.
StatusRequest ==
  /\ dpc = "idle"
  /\ dBase' = HistoryBase
  /\ ended' = [i \in Targets |-> NoOutcome]
  /\ \E in \in MetricInputs :
       IF in.statfsThrows
       THEN /\ resp' = [route |-> "/api/status", code |-> 500, kind |-> "error",
                        body |-> [error |-> "statfs failed"]]
            /\ dpc' = "responded"
            /\ UNCHANGED <<sys, results, order, sent>>
       ELSE /\ sys' = GetSystemMetrics(in)
            /\ results' = [i \in Targets |->
                             IF SERVICES[i].url = "local"
                             THEN CheckService(SERVICES[i].name, SERVICES[i].url, NoOutcome)
                             ELSE Unsettled]
            /\ sent' = [i \in Targets |-> IF SERVICES[i].url = "local" THEN 0 ELSE 1]
            /\ order' = << >>
            /\ dpc' = "awaiting"
            /\ resp' = NoResponse
  /\ UNCHANGED <<hreq, program, monVars>>

\* A probe that issues its request a second time when the first one failed.
ProbeSettleWithRetry ==
  /\ dpc = "awaiting"
  /\ \E i \in RemoteTargets, outcome \in RemoteOutcomes :
       /\ results[i] = Unsettled
       /\ outcome.elapsed >= LatestSettle
       /\ IF ~AxiosGet(outcome).resolved /\ sent[i] < 2
          THEN /\ sent' = [sent EXCEPT ![i] = @ + 1]
               /\ UNCHANGED <<results, order, ended>>
          ELSE /\ results' = [results EXCEPT
                                ![i] = CheckService(SERVICES[i].name, SERVICES[i].url,
                                                    outcome)]
               /\ order' = Append(order, i)
               /\ ended' = [ended EXCEPT ![i] = outcome]
               /\ UNCHANGED sent
  /\ UNCHANGED <<dpc, hreq, sys, dBase, resp, program, monVars>>

\* One outstanding request ends (response, network error or timeout) and
\* its checkService promise is fulfilled.  Probes were dispatched together,
\* so they settle in order of elapsed time.
ProbeSettle ==
  /\ dpc = "awaiting"
  /\ \E i \in RemoteTargets, outcome \in RemoteOutcomes :
       /\ results[i] = Unsettled
       /\ outcome.elapsed >= LatestSettle
       /\ results' = [results EXCEPT
                        ![i] = CheckService(SERVICES[i].name, SERVICES[i].url, outcome)]
       /\ order' = Append(order, i)
       /\ ended' = [ended EXCEPT ![i] = outcome]
  /\ UNCHANGED <<dpc, hreq, sys, sent, dBase, resp, program, monVars>>

\* A join that is fulfilled only when no probe failed, with nothing to
\* answer the request otherwise.
StatusRespondIfAllHealthy ==
  /\ dpc = "awaiting"
  /\ \A i \in Targets : results[i] # Unsettled /\ results[i].status = "healthy"
  /\ resp' = [route |-> "/api/status", code |-> 200, kind |-> "snapshot",
              body |-> [timestamp |-> LatestSettle,
                        system    |-> sys,
                        services  |-> results,
                        platform  |-> [name |-> "AI Business Platform"]]]
  /\ dpc' = "responded"
  /\ UNCHANGED <<hreq, sys, results, order, sent, ended, dBase, program, monVars>>

\* A join that answers as soon as one probe has settled.
StatusRespondOnFirstSettle ==
  /\ dpc = "awaiting"
  /\ \E i \in RemoteTargets : results[i] # Unsettled
  /\ resp' = [route |-> "/api/status", code |-> 200, kind |-> "snapshot",
              body |-> [timestamp |-> LatestSettle,
                        system    |-> sys,
                        services  |-> results,
                        platform  |-> [name |-> "AI Business Platform"]]]
  /\ dpc' = "responded"
  /\ UNCHANGED <<hreq, sys, results, order, sent, ended, dBase, program, monVars>>

\* Promise.all is fulfilled once every probe has settled; res.json(snapshot).
StatusRespond ==
  /\ dpc = "awaiting"
  /\ \A i \in Targets : results[i] # Unsettled
  /\ resp' = [route |-> "/api/status", code |-> 200, kind |-> "snapshot",
              body |-> [timestamp |-> LatestSettle,
                        system    |-> sys,
                        services  |-> ServiceChecks(results, order),
                        platform  |-> PlatformInfo]]
  /\ dpc' = "responded"
  /\ UNCHANGED <<hreq, sys, results, order, sent, ended, dBase, program, monVars>>

\* GET /api/system: res.json(getSystemMetrics()), with no try/catch; a throw
\* leaves the handler and Express answers 500 from its default error handler.
SystemRequest ==
  /\ dpc = "idle"
  /\ \E in \in MetricInputs :
       resp' = IF in.statfsThrows
               THEN [route |-> "/api/system", code |-> 500, kind |-> "unhandled",
                     body |-> [error |-> "statfs failed"]]
               ELSE [route |-> "/api/system", code |-> 200, kind |-> "metrics",
                     body |-> GetSystemMetrics(in)]
  /\ dpc' = "responded"
  /\ UNCHANGED <<hreq, sys, results, order, sent, ended, dBase, program, monVars>>

\* Names every object literal inherits from Object.prototype.
InheritedNames == {"constructor", "toString"}

\* Values of req.params.service: the configured names, a name that is no
\* property at all, and inherited property names.
HealthNames ==
  {SERVICES[i].name : i \in Targets} \cup {"no-such-service"} \cup InheritedNames

\* SERVICES[service]: an own property is the configured url, an inherited
\* one is a function of Object.prototype, anything else is undefined.
ServicesLookup(service) ==
  IF \E i \in Targets : SERVICES[i].name = service
  THEN [type |-> "string", index |-> CHOOSE i \in Targets : SERVICES[i].name = service]
  ELSE IF service \in InheritedNames
  THEN [type |-> "function", index |-> 0]
  ELSE [type |-> "undefined", index |-> 0]

\* What becomes of a request whose async handler rejected: Express 4 leaves
\* it unanswered and the runtime either only warns of the unhandled
\* rejection or terminates the process; Express 5 answers 500.
RejectedHandlerOutcomes == {"hung", "crashed", "responded"}

\* GET /api/health/:service up to its await.  For a url that is not a string
\* checkService reaches url.replace(...) in its try or in its catch, the
\* TypeError leaves the catch, and the handler, which has no try/catch,
\* rejects.
HealthRequest ==
  /\ dpc = "idle"
  /\ \E service \in HealthNames :
       LET url == ServicesLookup(service) IN
       /\ hreq' = service
       /\ CASE url.type = "undefined" ->
               /\ resp' = [route |-> "/api/health", code |-> 404, kind |-> "error",
                            body |-> [error |-> "Service not found"]]
               /\ dpc' = "responded"
               /\ UNCHANGED sent
            [] url.type = "function" ->
               /\ \E o \in RejectedHandlerOutcomes :
                    /\ dpc' = o
                    /\ resp' = IF o = "responded"
                               THEN [route |-> "/api/health", code |-> 500,
                                     kind |-> "unhandled",
                                     body |-> [error |-> "url.replace is not a function"]]
                               ELSE NoResponse
               /\ UNCHANGED sent
            [] url.type = "string" /\ SERVICES[url.index].url = "local" ->
               /\ resp' = [route |-> "/api/health", code |-> 200, kind |-> "service",
                            body |-> CheckService(service, SERVICES[url.index].url,
                                                  NoOutcome)]
               /\ dpc' = "responded"
               /\ UNCHANGED sent
            [] OTHER ->
               /\ sent' = [sent EXCEPT ![url.index] = 1]
               /\ dpc' = "probing"
               /\ resp' = NoResponse
  /\ UNCHANGED <<sys, results, order, ended, dBase, program, monVars>>

\* The outbound request of GET /api/health/:service ends; res.json(status).
HealthSettle ==
  /\ dpc = "probing"
  /\ \E outcome \in RemoteOutcomes :
       LET i == ServicesLookup(hreq).index
           status == CheckService(hreq, SERVICES[i].url, outcome)
       IN  /\ results' = [results EXCEPT ![i] = status]
           /\ order' = Append(order, i)
           /\ ended' = [ended EXCEPT ![i] = outcome]
           /\ resp' = [route |-> "/api/health", code |-> 200, kind |-> "service",
                        body |-> status]
  /\ dpc' = "responded"
  /\ UNCHANGED <<hreq, sys, sent, dBase, program, monVars>>

\* The request is over; the handler's locals are gone.
RequestDone ==
  /\ dpc \in {"responded", "hung"}
  /\ dpc' = "idle"
  /\ hreq' = "none"
  /\ sys' = NoMetrics
  /\ results' = [i \in Targets |-> Unsettled]
  /\ order' = << >>
  /\ sent' = [i \in Targets |-> 0]
  /\ ended' = [i \in Targets |-> NoOutcome]
  /\ dBase' = NoBase
  /\ resp' = NoResponse
  /\ UNCHANGED <<program, monVars>>

DashNext ==
  \/ StatusRequest
  \/ ProbeSettle
  \/ StatusRespond
  \/ SystemRequest
  \/ HealthRequest
  \/ HealthSettle
  \/ RequestDone

-----------------------------------------------------------------------------
(* Periodic check: constants, inputs and pure functions (part_000).         *)

\* The processes that can run the check (node part_000).
Runners == {1, 2}

\* logCheck keeps only the last 100 checks.
RetentionCap == 100

\* Runs of the check in one behaviour.
MaxRuns == 2

\* JavaScript null, and an array value, where a field can hold either.
Null == [null |-> TRUE]
Arr(s) == [null |-> FALSE, items |-> s]
Truthy(v) == ~v.null

\* A local that has not been assigned yet.
Undef == [undef |-> TRUE]

AdsDivision == [tiktokAgents |-> 4, googleAgents |-> 4, instagramAgents |-> 4,
                linkedinAgents |-> 3, totalAgents |-> 15, status |-> "ACTIVE"]
Web3Division == [salesAgents |-> 5, devAgents |-> 5, portfolioAgents |-> 5,
                 totalAgents |-> 15, status |-> "ACTIVE"]

\* What the operating system can report to getRealSystemMetrics.  The load
\* average is in thousandths, memory in units of 1/1000 GB, the stat block
\* size in KiB; osFails is a throw of any call outside the inner try.
LoadInputs == {1500, 5006}
MonMemInputs ==
  {[totalMem |-> 16000, freeMem |-> f] : f \in {4000, 3200, 2400, 1600, 784, 704}}
PsInputs == {401, 502}
OpenclawInputs == {[throws |-> FALSE, count |-> 2], [throws |-> FALSE, count |-> 0],
                   [throws |-> TRUE, count |-> 0]}
StatInputs == {[blocks |-> 8, blksize |-> 4], [blocks |-> 65536000, blksize |-> 4]}
HostInputs == {[hostname |-> "localhost", platform |-> "darwin", arch |-> "arm64"],
               [hostname |-> "monitor-01", platform |-> "linux", arch |-> "x64"]}
MonitorInputs ==
  {[loadavg |-> l, mem |-> m, psLines |-> n, openclaw |-> o, nodeCount |-> 10,
    stat |-> d, uptime |-> 86400, netstatLines |-> 100, osFails |-> f] :
     l \in LoadInputs, m \in MonMemInputs, n \in PsInputs, o \in OpenclawInputs,
     d \in StatInputs, f \in BOOLEAN}

\* Measurements of a quiet machine, of one with only the memory warning, and
\* of one on which every alert rule fires.
QuietInput ==
  [loadavg |-> 1500, mem |-> [totalMem |-> 16000, freeMem |-> 3200], psLines |-> 401,
   openclaw |-> [throws |-> FALSE, count |-> 2], nodeCount |-> 10,
   stat |-> [blocks |-> 8, blksize |-> 4], uptime |-> 86400, netstatLines |-> 100,
   osFails |-> FALSE]
WarnInput == [QuietInput EXCEPT !.mem.freeMem = 784]
LoudInput ==
  [QuietInput EXCEPT !.loadavg = 5006, !.mem.freeMem = 704, !.psLines = 502,
                     !.openclaw.count = 0, !.stat.blocks = 65536000]

\* The first run of a behaviour measures anything in MonitorInputs; to keep
\* the histories of several runs enumerable, a later run measures one of
\* these, or falls back.
RepeatInputs ==
  {QuietInput, WarnInput, LoudInput, [QuietInput EXCEPT !.osFails = TRUE]}

InputsOfRun(n) == IF n <= 1 THEN MonitorInputs ELSE RepeatInputs

\* The object getRealSystemMetrics returns from its try block.  cpuLoad is
\* in hundredths (toFixed(2)).
GetMeasuredMetrics(in, timestamp, h) ==
  LET totalMem == in.mem.totalMem
      freeMem  == in.mem.freeMem
      usedMem  == totalMem - freeMem
  IN  [timestamp          |-> timestamp,
       cpuLoad            |-> MathRound(in.loadavg, 10),
       memoryUsage        |-> MathRound(100 * usedMem, totalMem),
       memoryUsedGB       |-> MathRound(usedMem, 1000),
       memoryTotalGB      |-> MathRound(totalMem, 1000),
       memoryFreeGB       |-> MathRound(freeMem, 1000),
       processCount       |-> in.psLines - 1,
       openclawStatus     |-> IF in.openclaw.throws THEN "ERROR"
                              ELSE IF in.openclaw.count > 0 THEN "RUNNING"
                              ELSE "STOPPED",
       nodeProcesses      |-> in.nodeCount,
       diskUsageGB        |-> MathRound(in.stat.blocks * in.stat.blksize, 1048576),
       uptimeHours        |-> MathRound(in.uptime, 3600),
       networkConnections |-> in.netstatLines,
       hostname           |-> h.hostname,
       platform           |-> h.platform,
       arch               |-> h.arch,
       agentHealth        |-> 95,
       revenueTarget      |-> 75,
       responseTime       |-> 20,
       activeAgents       |-> 53,
       adsFarmingRevenue  |-> 3250,
       web3DomainRevenue  |-> 2739,
       totalRevenue       |-> 5989,
       adsDivision        |-> AdsDivision,
       web3Division       |-> Web3Division]

\* getFallbackMetrics(timestamp)
GetFallbackMetrics(timestamp) ==
  [timestamp          |-> timestamp,
   cpuLoad            |-> 150,
   memoryUsage        |-> 85,
   memoryUsedGB       |-> 12,
   memoryTotalGB      |-> 16,
   memoryFreeGB       |-> 4,
   processCount       |-> 400,
   openclawStatus     |-> "RUNNING",
   nodeProcesses      |-> 10,
   diskUsageGB        |-> 250,
   uptimeHours        |-> 24,
   networkConnections |-> 100,
   hostname           |-> "localhost",
   platform           |-> "darwin",
   arch               |-> "arm64",
   agentHealth        |-> 95,
   revenueTarget      |-> 75,
   responseTime       |-> 20,
   activeAgents       |-> 53,
   adsFarmingRevenue  |-> 3250,
   web3DomainRevenue  |-> 2739,
   totalRevenue       |-> 5989,
   adsDivision        |-> AdsDivision,
   web3Division       |-> Web3Division]

\* getRealSystemMetrics(): the try block, or the catch's fallback.
GetRealSystemMetrics(in, timestamp, h) ==
  IF in.osFails THEN GetFallbackMetrics(timestamp)
  ELSE GetMeasuredMetrics(in, timestamp, h)

\* The alert strings, as the rule that pushed them, the severity prefix they
\* start with ("critical" for the red CRITICAL prefix, "warning" for the
\* yellow WARNING prefix, "none" for no prefix) and the values interpolated.
Alert(rule, tag, args) == [rule |-> rule, tag |-> tag, args |-> args]

\* alert.includes('<red circle> CRITICAL')
IncludesCritical(alert) == alert.tag = "critical"

\* A memory rule that already warns at 80%.
MemoryAlertsFrom80(metrics) ==
  IF metrics.memoryUsage > 95
  THEN << Alert("memory", "critical",
                <<metrics.memoryUsage, metrics.memoryUsedGB, metrics.memoryTotalGB>>) >>
  ELSE IF metrics.memoryUsage >= 80
  THEN << Alert("memory", "warning", <<metrics.memoryUsage>>) >>
  ELSE << >>

\* The memory rule of checkRealAlerts: what it pushes.
MemoryAlerts(metrics) ==
  IF metrics.memoryUsage > 95
  THEN << Alert("memory", "critical",
                <<metrics.memoryUsage, metrics.memoryUsedGB, metrics.memoryTotalGB>>) >>
  ELSE IF metrics.memoryUsage > 90
  THEN << Alert("memory", "warning", <<metrics.memoryUsage>>) >>
  ELSE << >>

\* A checkRealAlerts that evaluates the memory rule before the CPU rule.
CheckRealAlertsMemoryFirst(metrics) ==
  MemoryAlerts(metrics)
  \o (IF metrics.cpuLoad > 500
        THEN << Alert("cpu", "none", <<metrics.cpuLoad>>) >> ELSE << >>)
  \o (IF metrics.openclawStatus # "RUNNING"
        THEN << Alert("openclaw", "none", <<metrics.openclawStatus>>) >> ELSE << >>)
  \o (IF metrics.diskUsageGB > 200
        THEN << Alert("disk", "none", <<metrics.diskUsageGB>>) >> ELSE << >>)
  \o (IF metrics.processCount > 500
        THEN << Alert("process", "none", <<metrics.processCount>>) >> ELSE << >>)

\* checkRealAlerts(metrics)
CheckRealAlerts(metrics) ==
  (IF metrics.cpuLoad > 500
     THEN << Alert("cpu", "none", <<metrics.cpuLoad>>) >> ELSE << >>)
  \o MemoryAlerts(metrics)
  \o (IF metrics.openclawStatus # "RUNNING"
        THEN << Alert("openclaw", "none", <<metrics.openclawStatus>>) >> ELSE << >>)
  \o (IF metrics.diskUsageGB > 200
        THEN << Alert("disk", "none", <<metrics.diskUsageGB>>) >> ELSE << >>)
  \o (IF metrics.processCount > 500
        THEN << Alert("process", "none", <<metrics.processCount>>) >> ELSE << >>)

\* The file a first initializeLogs writes.
FreshLogs(now) ==
  [kind |-> "json", startTime |-> now, checks |-> << >>,
   metrics |-> [totalChecks |-> 0, totalAlerts |-> 0, systemUptime |-> 100]]

AbsentFile == [kind |-> "absent"]
CorruptFile == [kind |-> "corrupt"]

\* The check object logCheck builds.
NewCheck(metrics, alerts) ==
  [timestamp |-> metrics.timestamp, metrics |-> metrics,
   alerts |-> IF Len(alerts) > 0 THEN Arr(alerts) ELSE Null]

\* checks.slice(0, n): keeps the oldest entries.
SliceFirst(checks, n) ==
  IF Len(checks) > n THEN SubSeq(checks, 1, n) ELSE checks

\* checks.slice(-n)
SliceLast(checks, n) ==
  IF Len(checks) > n THEN SubSeq(checks, Len(checks) - n + 1, Len(checks)) ELSE checks

\* A logCheck that counts the checks it retains.
LogCheckUpdateCountsRetained(logs, metrics, alerts) ==
  LET pushed == Append(logs.checks, NewCheck(metrics, alerts))
      kept   == IF Len(pushed) > RetentionCap
                THEN SubSeq(pushed, Len(pushed) - RetentionCap + 1, Len(pushed))
                ELSE pushed
  IN  [logs EXCEPT
         !.checks  = kept,
         !.metrics = [logs.metrics EXCEPT !.totalChecks = Len(kept),
                                          !.totalAlerts = @ + Len(alerts)]]

\* A logCheck that forgets to count the check.
LogCheckUpdateUncounted(logs, metrics, alerts) ==
  LET pushed == Append(logs.checks, NewCheck(metrics, alerts))
  IN  [logs EXCEPT
         !.checks  = IF Len(pushed) > RetentionCap
                     THEN SubSeq(pushed, Len(pushed) - RetentionCap + 1, Len(pushed))
                     ELSE pushed,
         !.metrics = [logs.metrics EXCEPT !.totalAlerts = @ + Len(alerts)]]

\* What logCheck makes of the logs it parsed, before writing them back.
LogCheckUpdate(logs, metrics, alerts) ==
  LET pushed == Append(logs.checks, NewCheck(metrics, alerts))
  IN  [logs EXCEPT
         !.checks  = IF Len(pushed) > RetentionCap
                     THEN SliceLast(pushed, RetentionCap) ELSE pushed,
         !.metrics = [logs.metrics EXCEPT
                        !.totalChecks = @ + 1,
                        !.totalAlerts = @ + Len(alerts)]]

\* A status that is WARNING only for an alert carrying the WARNING prefix.
SystemStatusByTag(logs) ==
  IF logs.checks # << >> /\ Truthy(logs.checks[Len(logs.checks)].alerts)
  THEN LET items == logs.checks[Len(logs.checks)].alerts.items IN
       IF \E k \in 1..Len(items) : items[k].tag = "critical" THEN "CRITICAL"
       ELSE IF \E k \in 1..Len(items) : items[k].tag = "warning" THEN "WARNING"
       ELSE "HEALTHY"
  ELSE "HEALTHY"

\* A status derived from the check before the last one.
SystemStatusOfPreviousCheck(logs) ==
  IF Len(logs.checks) > 1 /\ Truthy(logs.checks[Len(logs.checks) - 1].alerts)
  THEN IF \E k \in 1..Len(logs.checks[Len(logs.checks) - 1].alerts.items) :
            logs.checks[Len(logs.checks) - 1].alerts.items[k].tag = "critical"
       THEN "CRITICAL" ELSE "WARNING"
  ELSE "HEALTHY"

\* The systemStatus generateSummary derives from the last logged check.
SystemStatus(logs) ==
  IF logs.checks # << >> /\ Truthy(logs.checks[Len(logs.checks)].alerts)
  THEN IF \E k \in 1..Len(logs.checks[Len(logs.checks)].alerts.items) :
            IncludesCritical(logs.checks[Len(logs.checks)].alerts.items[k])
       THEN "CRITICAL" ELSE "WARNING"
  ELSE "HEALTHY"

\* generateSummary(), from the logs it parsed.
GenerateSummary(logs, now) ==
  [timestamp    |-> now,
   totalChecks  |-> logs.metrics.totalChecks,
   totalAlerts  |-> logs.metrics.totalAlerts,
   systemStatus |-> SystemStatus(logs),
   lastCheck    |-> IF logs.checks # << >>
                    THEN [null |-> FALSE, at |-> logs.checks[Len(logs.checks)].timestamp]
                    ELSE Null]

\* What createRealReport renders into the report file.
CreateRealReport(summary, metrics, alerts) ==
  [kind |-> "html",
   statusColor |-> IF summary.systemStatus = "HEALTHY" THEN "#38a169"
                   ELSE IF summary.systemStatus = "WARNING" THEN "#d69e2e"
                   ELSE "#e53e3e",
   summary |-> summary, metrics |-> metrics, alerts |-> alerts]

\* How a writeFileSync can end: written; refused when opening (the file is
\* left as it was); or failed after the file was truncated.
WriteOutcomes == {"ok", "refused", "truncated"}


-----------------------------------------------------------------------------
(* Periodic check: runRealMonitoring, one action per call it makes.         *)

MonInit ==
  /\ logFile = AbsentFile
  /\ reportFile = AbsentFile
  /\ clock = 0
  /\ runs = 0
  /\ mpc = [p \in Runners |-> "idle"]
  /\ mMetrics = [p \in Runners |-> Undef]
  /\ mAlerts = [p \in Runners |-> << >>]
  /\ mLogs = [p \in Runners |-> Undef]
  /\ mSummary = [p \in Runners |-> Undef]
  /\ mResult = [p \in Runners |-> Undef]
  /\ mSource = [p \in Runners |-> "none"]
  /\ mInput = [p \in Runners |-> Undef]
  /\ mBase = [p \in Runners |-> NoBase]
  /\ appended = << >>
  /\ host \in HostInputs

\* A throw inside the try of runRealMonitoring: the catch returns
\* {success: false, error}.
Fails(p, message) ==
  /\ mResult' = [mResult EXCEPT ![p] = [success |-> FALSE, error |-> message]]
  /\ mpc' = [mpc EXCEPT ![p] = "done"]

\* What a writeFileSync that ended as w leaves in the file.
Written(file, content, w) ==
  CASE w = "ok" -> content
    [] w = "refused" -> file
    [] OTHER -> CorruptFile

\* node part_000: require.main === module, so runRealMonitoring() is called.
StartRun(p) ==
  /\ mpc[p] \in {"idle", "done"}
  /\ runs < MaxRuns
  /\ runs' = runs + 1
  /\ mpc' = [mpc EXCEPT ![p] = "init"]
  /\ mMetrics' = [mMetrics EXCEPT ![p] = Undef]
  /\ mAlerts' = [mAlerts EXCEPT ![p] = << >>]
  /\ mLogs' = [mLogs EXCEPT ![p] = Undef]
  /\ mSummary' = [mSummary EXCEPT ![p] = Undef]
  /\ mResult' = [mResult EXCEPT ![p] = Undef]
  /\ mSource' = [mSource EXCEPT ![p] = "none"]
  /\ mInput' = [mInput EXCEPT ![p] = Undef]
  /\ mBase' = [mBase EXCEPT ![p] = HistoryBase]
  /\ UNCHANGED <<logFile, reportFile, clock, appended, host, program, dashVars>>

\* An initializeLogs that writes a fresh file on every call.
InitializeLogsAlways(p) ==
  /\ mpc[p] = "init"
  /\ \E w \in WriteOutcomes :
       /\ logFile' = Written(logFile, FreshLogs(clock), w)
       /\ clock' = clock + 1
       /\ IF w = "ok"
          THEN mpc' = [mpc EXCEPT ![p] = "metrics"] /\ UNCHANGED mResult
          ELSE Fails(p, "writeFileSync")
  /\ UNCHANGED <<reportFile, runs, mMetrics, mAlerts, mLogs, mSummary, mSource,
                 mInput, mBase, appended, host, program, dashVars>>

\* initializeLogs(): writes a fresh file only when none exists.
InitializeLogs(p) ==
  /\ mpc[p] = "init"
  /\ IF logFile.kind = "absent"
     THEN \E w \in WriteOutcomes :
            /\ logFile' = Written(logFile, FreshLogs(clock), w)
            /\ clock' = clock + 1
            /\ IF w = "ok"
               THEN mpc' = [mpc EXCEPT ![p] = "metrics"] /\ UNCHANGED mResult
               ELSE Fails(p, "writeFileSync")
     ELSE /\ mpc' = [mpc EXCEPT ![p] = "metrics"]
          /\ UNCHANGED <<logFile, clock, mResult>>
  /\ UNCHANGED <<reportFile, runs, mMetrics, mAlerts, mLogs, mSummary, mSource,
                 mInput, mBase, appended, host, program, dashVars>>

\* const metrics = getRealSystemMetrics()
CollectMetrics(p) ==
  /\ mpc[p] = "metrics"
  /\ \E in \in InputsOfRun(runs) :
       /\ mMetrics' = [mMetrics EXCEPT ![p] = GetRealSystemMetrics(in, clock, host)]
       /\ mSource' = [mSource EXCEPT ![p] = IF in.osFails THEN "fallback" ELSE "measured"]
       /\ mInput' = [mInput EXCEPT ![p] = IF in.osFails THEN Undef ELSE in]
  /\ clock' = clock + 1
  /\ mpc' = [mpc EXCEPT ![p] = "alerts"]
  /\ UNCHANGED <<logFile, reportFile, runs, mAlerts, mLogs, mSummary, mResult,
                 mBase, appended, host, program, dashVars>>

\* const alerts = checkRealAlerts(metrics)
EvaluateAlerts(p) ==
  /\ mpc[p] = "alerts"
  /\ mAlerts' = [mAlerts EXCEPT ![p] = CheckRealAlerts(mMetrics[p])]
  /\ mpc' = [mpc EXCEPT ![p] = "logread"]
  /\ UNCHANGED <<logFile, reportFile, clock, runs, mMetrics, mLogs, mSummary,
                 mResult, mSource, mInput, mBase, appended, host, program, dashVars>>

\* A logCheck that starts a new history when the file cannot be parsed.
LogCheckReadRecovering(p) ==
  /\ mpc[p] = "logread"
  /\ mLogs' = [mLogs EXCEPT ![p] = IF logFile.kind = "json" THEN logFile
                                    ELSE FreshLogs(clock)]
  /\ mpc' = [mpc EXCEPT ![p] = "logwrite"]
  /\ UNCHANGED <<logFile, reportFile, clock, runs, mMetrics, mAlerts, mSummary,
                 mResult, mSource, mInput, mBase, appended, host, program, dashVars>>

\* logCheck: JSON.parse(fs.readFileSync(LOG_FILE)); throws when the file is
\* missing, unreadable or not JSON.
LogCheckRead(p) ==
  /\ mpc[p] = "logread"
  /\ \E readable \in BOOLEAN :
       IF readable /\ logFile.kind = "json"
       THEN /\ mLogs' = [mLogs EXCEPT ![p] = logFile]
            /\ mpc' = [mpc EXCEPT ![p] = "logwrite"]
            /\ UNCHANGED mResult
       ELSE /\ Fails(p, "readFileSync/JSON.parse")
            /\ UNCHANGED mLogs
  /\ UNCHANGED <<logFile, reportFile, clock, runs, mMetrics, mAlerts, mSummary,
                 mSource, mInput, mBase, appended, host, program, dashVars>>

\* logCheck: push, count, trim, fs.writeFileSync(LOG_FILE, ...).
LogCheckWrite(p) ==
  /\ mpc[p] = "logwrite"
  /\ \E w \in WriteOutcomes :
       /\ logFile' = Written(logFile, LogCheckUpdate(mLogs[p], mMetrics[p], mAlerts[p]), w)
       /\ IF w = "ok"
          THEN /\ appended' = Append(appended, NewCheck(mMetrics[p], mAlerts[p]))
               /\ mpc' = [mpc EXCEPT ![p] = "summary"]
               /\ UNCHANGED mResult
          ELSE /\ Fails(p, "writeFileSync")
               /\ UNCHANGED appended
  /\ UNCHANGED <<reportFile, clock, runs, mMetrics, mAlerts, mLogs, mSummary,
                 mSource, mInput, mBase, host, program, dashVars>>

\* const summary = generateSummary(): reads the file again.
SummaryRead(p) ==
  /\ mpc[p] = "summary"
  /\ \E readable \in BOOLEAN :
       IF readable /\ logFile.kind = "json"
       THEN /\ mSummary' = [mSummary EXCEPT ![p] = GenerateSummary(logFile, clock)]
            /\ clock' = clock + 1
            /\ mpc' = [mpc EXCEPT ![p] = "report"]
            /\ UNCHANGED mResult
       ELSE /\ Fails(p, "readFileSync/JSON.parse")
            /\ UNCHANGED <<mSummary, clock>>
  /\ UNCHANGED <<logFile, reportFile, runs, mMetrics, mAlerts, mLogs, mSource,
                 mInput, mBase, appended, host, program, dashVars>>

\* createRealReport(summary, metrics, alerts), then
\* return {success: true, summary, metrics, alerts}.
WriteReport(p) ==
  /\ mpc[p] = "report"
  /\ \E w \in WriteOutcomes :
       /\ reportFile' = Written(reportFile,
                                CreateRealReport(mSummary[p], mMetrics[p], mAlerts[p]), w)
       /\ IF w = "ok"
          THEN /\ mResult' = [mResult EXCEPT ![p] =
                                [success |-> TRUE, summary |-> mSummary[p],
                                 metrics |-> mMetrics[p], alerts |-> mAlerts[p]]]
               /\ mpc' = [mpc EXCEPT ![p] = "done"]
          ELSE Fails(p, "writeFileSync")
  /\ UNCHANGED <<logFile, clock, runs, mMetrics, mAlerts, mLogs, mSummary, mSource,
                 mInput, mBase, appended, host, program, dashVars>>

\* The check is started by hand or by a scheduler, one run after the other.
SequentialRunners == {1}

MonNext ==
  \E p \in SequentialRunners :
    \/ StartRun(p)
    \/ InitializeLogs(p)
    \/ CollectMetrics(p)
    \/ EvaluateAlerts(p)
    \/ LogCheckRead(p)
    \/ LogCheckWrite(p)
    \/ SummaryRead(p)
    \/ WriteReport(p)

-----------------------------------------------------------------------------
(* Specifications.                                                          *)

\* The dashboard server.
Init == program = "dashboard" /\ DashInit /\ MonInit /\ host.platform = "linux"

Spec == Init /\ [][DashNext]_vars

\* The dashboard server when every outbound request ends (axios gives up
\* after its timeout at the latest) and the event loop runs the code waiting
\* for it.
LiveSpec ==
  /\ Init
  /\ [][DashNext]_vars
  /\ WF_vars(ProbeSettle)
  /\ WF_vars(StatusRespond)

\* The periodic check, from a directory with no history file.
MonSpecInit == program = "monitor" /\ DashInit /\ MonInit

MonSpec == MonSpecInit /\ [][MonNext]_vars


\* The periodic check on a machine where it has already run k times, each
\* run quiet and complete: the files and the clock those k runs leave.
PriorCheck(i, h) == NewCheck(GetMeasuredMetrics(QuietInput, 2 * i - 1, h), << >>)
PriorLogs(k, h) ==
  [kind |-> "json", startTime |-> 0, checks |-> [i \in 1..k |-> PriorCheck(i, h)],
   metrics |-> [totalChecks |-> k, totalAlerts |-> 0, systemUptime |-> 100]]
PriorReport(k, h) ==
  CreateRealReport(GenerateSummary(PriorLogs(k, h), 2 * k),
                   GetMeasuredMetrics(QuietInput, 2 * k - 1, h), << >>)

AfterRuns(k) ==
  /\ logFile = PriorLogs(k, host)
  /\ reportFile = PriorReport(k, host)
  /\ clock = 2 * k + 1
  /\ appended = PriorLogs(k, host).checks

MonIdle ==
  /\ runs = 0
  /\ mpc = [p \in Runners |-> "idle"]
  /\ mMetrics = [p \in Runners |-> Undef]
  /\ mAlerts = [p \in Runners |-> << >>]
  /\ mLogs = [p \in Runners |-> Undef]
  /\ mSummary = [p \in Runners |-> Undef]
  /\ mResult = [p \in Runners |-> Undef]
  /\ mSource = [p \in Runners |-> "none"]
  /\ mInput = [p \in Runners |-> Undef]
  /\ mBase = [p \in Runners |-> NoBase]

\* The periodic check, with the history one run short of the cap, or at it.
LogSpecInit ==
  /\ program = "monitor"
  /\ DashInit
  /\ host \in {h \in HostInputs : h.platform = "linux"}
  /\ MonIdle
  /\ \E k \in {RetentionCap - 1, RetentionCap} : AfterRuns(k)

LogSpec == LogSpecInit /\ [][MonNext]_vars

\* Either program, from any of the starting points above.
SysInit == Init \/ MonSpecInit \/ LogSpecInit

SysNext ==
  \/ program = "dashboard" /\ DashNext
  \/ program = "monitor" /\ MonNext

SysSpec == SysInit /\ [][SysNext]_vars

\* Two node processes running the check in the same directory at the same
\* time (two scheduler ticks, or a tick and a run by hand).  Every step of a
\* process is a synchronous call, and nothing orders the calls of one process
\* against those of the other: the file is not locked.
ConcNext ==
  \E p \in Runners :
    \/ StartRun(p)
    \/ InitializeLogs(p)
    \/ CollectMetrics(p)
    \/ EvaluateAlerts(p)
    \/ LogCheckRead(p)
    \/ LogCheckWrite(p)
    \/ SummaryRead(p)
    \/ WriteReport(p)

ConcInit == MonSpecInit /\ host.platform = "linux"

ConcSpec == ConcInit /\ [][ConcNext]_vars


-----------------------------------------------------------------------------
(* Properties.                                                              *)

\* A GET /api/status request has been answered with a snapshot.
Snapshot == dpc = "responded" /\ resp.kind = "snapshot"

\* The entry checkService yields for target i, given how its request ended.
OwnStatus(i) == CheckService(SERVICES[i].name, SERVICES[i].url, ended[i])

Unreachable(i) == ended[i].kind \in {"network", "timeout"}

\* C1: the services of a snapshot are as many as the configured targets,
\* and the i-th entry is the status of the i-th configured target, whatever
\* the order in which the probes completed.
C1_ServicesInConfiguredOrder ==
  Snapshot =>
    /\ Len(resp.body.services) = Len(SERVICES)
    /\ \A i \in Targets :
         /\ resp.body.services[i].name = SERVICES[i].name
         /\ resp.body.services[i] = OwnStatus(i)

\* C1 witness: a snapshot whose probes completed in the reverse of the
\* configured order, with different outcomes.
C1_Witness ==
  /\ Snapshot
  /\ order = <<3, 2, 1>>
  /\ resp.body.services[1].status = "critical"
  /\ resp.body.services[3].status = "healthy"

Succeeded(p) == mpc[p] = "done" /\ mResult[p].success

HasTag(alerts, tag) == \E k \in 1..Len(alerts) : alerts[k].tag = tag

\* C3 as stated: the status of a check is CRITICAL iff an alert is tagged
\* critical, WARNING iff none is tagged critical and one is tagged warning,
\* and HEALTHY otherwise.
C3_StatusFollowsTags ==
  \A p \in Runners : Succeeded(p) =>
    LET a  == mResult[p].alerts
        st == mResult[p].summary.systemStatus
    IN  /\ (st = "CRITICAL") <=> HasTag(a, "critical")
        /\ (st = "WARNING") <=> (~HasTag(a, "critical") /\ HasTag(a, "warning"))
        /\ (st = "HEALTHY") <=> (~HasTag(a, "critical") /\ ~HasTag(a, "warning"))

\* C3 as amended: the status of a check is CRITICAL iff an alert is tagged
\* critical, WARNING iff none is tagged critical and there is any alert at
\* all, and HEALTHY iff there is no alert.
C3_StatusFollowsAlerts ==
  \A p \in Runners : Succeeded(p) =>
    LET a  == mResult[p].alerts
        st == mResult[p].summary.systemStatus
    IN  /\ (st = "CRITICAL") <=> HasTag(a, "critical")
        /\ (st = "WARNING") <=> (~HasTag(a, "critical") /\ a # << >>)
        /\ (st = "HEALTHY") <=> (a = << >>)

\* C3 witness: a check whose only alerts carry no tag, reported as WARNING.
C3_Witness ==
  /\ Succeeded(1)
  /\ mResult[1].alerts # << >>
  /\ ~HasTag(mResult[1].alerts, "critical")
  /\ ~HasTag(mResult[1].alerts, "warning")
  /\ mResult[1].summary.systemStatus = "WARNING"

\* Run p has evaluated the alert rules on measured (not fallback) metrics.
Evaluated(p) ==
  /\ mSource[p] = "measured"
  /\ mpc[p] \in {"logread", "logwrite", "summary", "report", "done"}

\* C4: a measured used/total memory ratio of exactly 0.951 yields a CRITICAL
\* memory alert, and a ratio of exactly 0.90 yields no memory alert.
C4_MemoryBoundaries ==
  \A p \in Runners : Evaluated(p) =>
    LET total == mInput[p].mem.totalMem
        used  == mInput[p].mem.totalMem - mInput[p].mem.freeMem
        a     == mAlerts[p]
    IN  /\ (1000 * used = 951 * total) =>
             \E k \in 1..Len(a) : a[k].rule = "memory" /\ a[k].tag = "critical"
        /\ (10 * used = 9 * total) =>
             ~ \E k \in 1..Len(a) : a[k].rule = "memory"

\* C5: the persisted checks never exceed the retention cap, and they are
\* exactly the most recent appended checks, in the order they were appended.
C5_RetentionFifo ==
  logFile.kind = "json" =>
    LET c == logFile.checks
        n == Len(logFile.checks)
        m == Len(appended)
    IN  /\ n <= RetentionCap
        /\ n = IF m < RetentionCap THEN m ELSE RetentionCap
        /\ \A j \in 1..n : c[j] = appended[m - n + j]

\* C5 witness: two checks were appended to a full history, and the file
\* holds the cap.
C5_Witness ==
  /\ logFile.kind = "json"
  /\ Len(appended) = RetentionCap + 2
  /\ Len(logFile.checks) = RetentionCap
  /\ logFile.checks[1] = appended[3]

C7_NeverFailsOutright ==
  (dpc = "responded" /\ resp.route \in {"/api/status", "/api/system"}) =>
    /\ resp.code = 200
    /\ resp.kind \in {"snapshot", "metrics"}

\* C8: a probe of a remote target is critical with a non-empty error when
\* its request ended in a network error, a non-2xx response or a timeout,
\* healthy exactly when a 2xx response arrived within the timeout, and
\* nothing else.
C8_ProbeClassification ==
  \A i \in RemoteTargets : results[i] # Unsettled =>
    LET ok == /\ ended[i].kind = "response"
              /\ ended[i].code >= 200 /\ ended[i].code < 300
              /\ ended[i].elapsed < TIMEOUT_MS
    IN  /\ results[i].status \in {"healthy", "critical"}
        /\ (results[i].status = "healthy") <=> ok
        /\ (results[i].status = "critical") =>
             /\ "error" \in DOMAIN results[i]
             /\ results[i].error # ""

\* C8 witness: in one cycle a probe timed out, one got a 503 and one a 200.
C8_Witness ==
  /\ ended[1].kind = "timeout" /\ results[1].status = "critical"
  /\ ended[2].kind = "response" /\ ended[2].code = 503
  /\ results[2].status = "critical"
  /\ ended[3].kind = "response" /\ ended[3].code = 200
  /\ results[3].status = "healthy"

\* C9: when every data source of a cycle fails, the cycle returns a
\* snapshot whose entities are marked unavailable or critical and whose
\* overall status is CRITICAL.
C9_AllSourcesFailedIsCritical ==
  \A p \in Runners : (Succeeded(p) /\ mSource[p] = "fallback") =>
    /\ mResult[p].metrics.openclawStatus # "RUNNING"
    /\ mResult[p].summary.systemStatus = "CRITICAL"

\* The values field f takes in the records getRealSystemMetrics can measure.
MeasurableValues(f, timestamp) ==
  {GetMeasuredMetrics(in, timestamp, h)[f] : in \in MonitorInputs, h \in HostInputs}

\* C10: the record substituted when an OS query fails is marked as fallback:
\* it has a field that no measured record has, or a value in some field that
\* no measured record has there.
C10_FallbackIsMarked ==
  \A p \in Runners : mSource[p] = "fallback" =>
    \/ DOMAIN mMetrics[p] # DOMAIN GetMeasuredMetrics(QuietInput, 0, host)
    \/ \E f \in DOMAIN mMetrics[p] :
         mMetrics[p][f] \notin MeasurableValues(f, mMetrics[p].timestamp)

\* Both processes parsed the history before either wrote it back.
Overlapped == mLogs[1] # Undef /\ mLogs[1] = mLogs[2]

\* C11: when two runs of the check overlap in logCheck's read-modify-write
\* of the same history and both finish, the history holds both their
\* entries, and totalChecks and totalAlerts account for both.
C11_ConcurrentAppendsKept ==
  (Succeeded(1) /\ Succeeded(2) /\ Overlapped) =>
    /\ logFile.kind = "json"
    /\ Len(logFile.checks) = Len(mLogs[1].checks) + 2
    /\ \A p \in Runners :
         \E k \in 1..Len(logFile.checks) :
           logFile.checks[k] = NewCheck(mResult[p].metrics, mResult[p].alerts)
    /\ logFile.metrics.totalChecks = mLogs[1].metrics.totalChecks + 2
    /\ logFile.metrics.totalAlerts =
         mLogs[1].metrics.totalAlerts + Len(mResult[1].alerts) + Len(mResult[2].alerts)

\* C12: GET /api/health/:service is never left unanswered and never brings
\* the server down; it answers with the status of the named target when the
\* name is a configured one, and with 404 and an error payload otherwise.
C12_HealthAlwaysAnswers ==
  /\ dpc \notin {"hung", "crashed"}
  /\ (dpc = "responded" /\ resp.route = "/api/health") =>
       IF \E i \in Targets : SERVICES[i].name = hreq
       THEN /\ resp.code = 200
            /\ resp.kind = "service"
            /\ resp.body.name = hreq
            /\ resp.body.status \in {"healthy", "critical"}
       ELSE /\ resp.code = 404
            /\ resp.kind = "error"

\* Run p computed its metrics and alerts and then failed reading or writing
\* the history file, in logCheck or in generateSummary.
HistoryFailed(p) ==
  /\ mpc[p] = "done"
  /\ ~mResult[p].success
  /\ mSource[p] # "none"
  /\ mSummary[p] = Undef

\* C13: a run that fails reading or writing the history file still returns
\* to its caller the metrics and the alerts it computed.
C13_SnapshotSurvivesHistoryFailure ==
  \A p \in Runners : HistoryFailed(p) =>
    /\ "metrics" \in DOMAIN mResult[p]
    /\ mResult[p].metrics = mMetrics[p]
    /\ "alerts" \in DOMAIN mResult[p]
    /\ mResult[p].alerts = mAlerts[p]

\* The outbound request for target i ended without a 2xx response.
ProbeFailed(i) ==
  \/ ended[i].kind \in {"network", "timeout"}
  \/ ended[i].kind = "response" /\ (ended[i].code < 200 \/ ended[i].code >= 300)

\* C14: a GET /api/status cycle that dispatched its probes answers only
\* after every probe has settled, and answers with a snapshot: a probe that
\* failed or timed out is a critical entry of it, and every configured
\* target has its entry.
C14_AnswersAfterAllSettled ==
  /\ dpc = "awaiting" => resp = NoResponse
  /\ (dpc = "responded" /\ resp.route = "/api/status"
        /\ \E i \in Targets : sent[i] > 0) =>
       /\ resp.kind = "snapshot"
       /\ \A i \in Targets : results[i] # Unsettled
       /\ \A i \in RemoteTargets : ended[i] \in RemoteOutcomes
       /\ Len(order) = Cardinality(RemoteTargets)
       /\ \A i \in Targets :
            \E k \in DOMAIN resp.body.services :
              resp.body.services[k].name = SERVICES[i].name
       /\ \A i \in RemoteTargets :
            ProbeFailed(i) => resp.body.services[i].status = "critical"

\* C14 witness: a snapshot of a cycle in which the first probe failed at
\* once with a network error, the second answered 200 and the third was the
\* last to settle, by timing out.
C14_Witness ==
  /\ Snapshot
  /\ order = <<1, 2, 3>>
  /\ ended[1].kind = "network"
  /\ ended[2].kind = "response" /\ ended[2].code = 200
  /\ ended[3].kind = "timeout"
  /\ resp.body.services[1].status = "critical"
  /\ resp.body.services[2].status = "healthy"
  /\ resp.body.services[3].status = "critical"

\* The end-to-end scenario: a snapshot of a cycle in which the request for
\* remote service t timed out and the other two got a 200 in time.
TimeoutScenario(t) ==
  /\ Snapshot
  /\ ended[t].kind = "timeout"
  /\ \A j \in RemoteTargets \ {t} :
       /\ ended[j].kind = "response"
       /\ ended[j].code = 200
       /\ ended[j].elapsed < TIMEOUT_MS

ReportedSystem == IF resp.kind = "snapshot" THEN resp.body.system ELSE resp.body

\* The end-to-end scenario in the dashboard: memory at 80.0%, CPU usage at
\* most 70%, and, in a snapshot, every service healthy.
QuietDashboard ==
  /\ dpc = "responded"
  /\ resp.kind \in {"snapshot", "metrics"}
  /\ ReportedSystem.memory.percent = 800
  /\ ReportedSystem.cpu <= 700
  /\ resp.kind = "snapshot" =>
       \A i \in Targets : resp.body.services[i].status = "healthy"

\* The end-to-end scenario in the periodic check: a successful run that
\* measured used/total memory = 0.80 and a load average of at most 5, with
\* OpenClaw running.
QuietCheck(p) ==
  /\ Succeeded(p)
  /\ mSource[p] = "measured"
  /\ 10 * (mInput[p].mem.totalMem - mInput[p].mem.freeMem) = 8 * mInput[p].mem.totalMem
  /\ mInput[p].loadavg <= 5000
  /\ mResult[p].metrics.openclawStatus = "RUNNING"

\* C16 as stated: in the scenario the periodic check reports HEALTHY with
\* no alerts, and the dashboard reports system health healthy.
C16_QuietScenarioIsHealthy ==
  /\ \A p \in Runners : QuietCheck(p) =>
       /\ mResult[p].alerts = << >>
       /\ mResult[p].summary.systemStatus = "HEALTHY"
  /\ QuietDashboard => ReportedSystem.health = "healthy"

\* C16 as amended: in the scenario the periodic check reports HEALTHY with
\* no alerts when, besides, disk usage is at most 200 GB and there are at
\* most 500 processes; the dashboard reports system health warning.
C16_QuietScenario ==
  /\ \A p \in Runners :
       (/\ QuietCheck(p)
        /\ mResult[p].metrics.diskUsageGB <= 200
        /\ mResult[p].metrics.processCount <= 500) =>
         /\ mResult[p].alerts = << >>
         /\ mResult[p].summary.systemStatus = "HEALTHY"
  /\ QuietDashboard => ReportedSystem.health = "warning"

\* C16 witness: a snapshot with memory at 80.0%, CPU at 15%, every service
\* healthy, and system health warning.
C16_Witness ==
  /\ QuietDashboard
  /\ resp.kind = "snapshot"
  /\ ReportedSystem.cpu = 150
  /\ ReportedSystem.health = "warning"

\* The position of a rule in checkRealAlerts.
RuleRank(rule) ==
  CASE rule = "cpu" -> 1
    [] rule = "memory" -> 2
    [] rule = "openclaw" -> 3
    [] rule = "disk" -> 4
    [] rule = "process" -> 5

\* The readings of a metrics record: everything but when it was taken.
Readings(metrics) == [metrics EXCEPT !.timestamp = 0]

\* Run p has called checkRealAlerts.
AlertsEvaluated(p) ==
  /\ mSource[p] # "none"
  /\ mpc[p] \in {"logread", "logwrite", "summary", "report", "done"}

\* C17: the alerts of a check follow the rule order CPU, memory, OpenClaw,
\* disk, process count, at most one alert per rule, and two checks with
\* equal readings were logged with the same alerts in the same order.
C17_FixedRuleOrder ==
  /\ \A p \in Runners : AlertsEvaluated(p) =>
       \A j, k \in 1..Len(mAlerts[p]) :
         j < k => RuleRank(mAlerts[p][j].rule) < RuleRank(mAlerts[p][k].rule)
  /\ \A i, j \in 1..Len(appended) :
       Readings(appended[i].metrics) = Readings(appended[j].metrics)
         => appended[i].alerts = appended[j].alerts

\* C17 witness: two logged checks with equal readings on which all five
\* rules fired.
C17_Witness ==
  /\ Len(appended) = 2
  /\ Readings(appended[1].metrics) = Readings(appended[2].metrics)
  /\ appended[1].alerts = appended[2].alerts
  /\ Truthy(appended[2].alerts)
  /\ Len(appended[2].alerts.items) = 5
  /\ appended[2].alerts.items[1].rule = "cpu"
  /\ appended[2].alerts.items[5].rule = "process"

\* Run p has generated its summary while the report of an earlier run, on
\* the same readings, is still on disk.
RepeatedRun(p) ==
  /\ mpc[p] = "report"
  /\ reportFile.kind = "html"
  /\ Readings(reportFile.metrics) = Readings(mMetrics[p])

\* C18: a run of the check on the readings of an earlier run derives the
\* same alerts and the same status as that run did, whatever the history
\* held before either; and a snapshot of GET /api/status lists the services
\* in configured order, each entry determined by how its own request ended,
\* with the system block getSystemMetrics computes from the OS readings
\* alone, so two cycles on the same inputs agree on order and health.
C18_SameInputsSameStatus ==
  /\ \A p \in Runners : RepeatedRun(p) =>
       /\ mAlerts[p] = reportFile.alerts
       /\ mSummary[p].systemStatus = reportFile.summary.systemStatus
  /\ Snapshot =>
       /\ \A i \in Targets : resp.body.services[i].name = SERVICES[i].name
       /\ \A i \in Targets : resp.body.services[i].status = OwnStatus(i).status
       /\ \E in \in MetricInputs :
            ~in.statfsThrows /\ resp.body.system = GetSystemMetrics(in)

\* C18 witness: a second run on a full history, on readings that raise the
\* critical memory alert, as did the run whose report is on disk.
C18_Witness ==
  /\ RepeatedRun(1)
  /\ runs = 2
  /\ Len(logFile.checks) = RetentionCap
  /\ mSummary[1].systemStatus = "CRITICAL"
  /\ reportFile.summary.systemStatus = "CRITICAL"

\* C19: in a GET /api/status cycle exactly one outbound request is issued
\* for each remote target, however that request ends, and none for the
\* 'local' target; no handler ever issues a second request for a target.
C19_OneRequestPerTarget ==
  /\ (dpc = "awaiting" \/ Snapshot) =>
       \A i \in Targets : sent[i] = IF SERVICES[i].url = "local" THEN 0 ELSE 1
  /\ \A i \in Targets :
       /\ sent[i] <= 1
       /\ SERVICES[i].url = "local" => sent[i] = 0

\* C19 witness: a snapshot of a cycle in which the three requests ended in
\* a 503, a network error and a timeout, each issued once.
C19_Witness ==
  /\ Snapshot
  /\ ended[1].kind = "response" /\ ended[1].code = 503
  /\ ended[2].kind = "network"
  /\ ended[3].kind = "timeout"
  /\ sent = [i \in Targets |-> IF i \in RemoteTargets THEN 1 ELSE 0]

\* C20: a GET /api/status request that is waiting for its probes is
\* eventually answered, and a response, once written, is not replaced by
\* another one while the request lasts.
C20_StatusAnsweredOnce ==
  /\ [](dpc = "awaiting" => <>(dpc = "responded" /\ resp.route = "/api/status"))
  /\ [][resp # NoResponse => resp' \in {resp, NoResponse}]_vars

\* C20 witness: a GET /api/status request answered after all three of its
\* probes timed out.
C20_Witness ==
  /\ dpc = "responded"
  /\ resp.route = "/api/status"
  /\ resp.code = 200
  /\ \A i \in RemoteTargets : ended[i].kind = "timeout"

\* alerts.length of the run that logged a check.
AlertCount(check) == IF Truthy(check.alerts) THEN Len(check.alerts.items) ELSE 0

\* The alert counts of the first n appended checks, summed.
RECURSIVE AlertsAppended(_)
AlertsAppended(n) ==
  IF n = 0 THEN 0 ELSE AlertsAppended(n - 1) + AlertCount(appended[n])

\* C21: in a history grown by successive runs from a freshly initialized
\* file, totalChecks is the number of checks ever appended and totalAlerts
\* the sum of their alert counts, evicted checks included; totalChecks is at
\* least the length of checks, and no step lowers either counter.
C21_CountersCountEveryAppend ==
  /\ [](logFile.kind = "json" =>
          /\ logFile.metrics.totalChecks = Len(appended)
          /\ logFile.metrics.totalAlerts = AlertsAppended(Len(appended))
          /\ logFile.metrics.totalChecks >= Len(logFile.checks))
  /\ [][(logFile.kind = "json" /\ logFile'.kind = "json") =>
          /\ logFile'.metrics.totalChecks >= logFile.metrics.totalChecks
          /\ logFile'.metrics.totalAlerts >= logFile.metrics.totalAlerts]_vars

\* C21 witness: two checks with alerts were appended to a full history, so
\* that two checks are evicted and still counted.
C21_Witness ==
  /\ logFile.kind = "json"
  /\ Len(appended) = RetentionCap + 2
  /\ logFile.metrics.totalChecks = RetentionCap + 2
  /\ Len(logFile.checks) = RetentionCap
  /\ logFile.metrics.totalAlerts > 5

\* C22: the system status in the summary a run returns is HEALTHY exactly
\* when the alerts in the same result are empty, also when another run
\* sharing the history file logs its check between this run's logCheck and
\* its generateSummary.
C22_StatusOfOwnAlerts ==
  \A p \in Runners : Succeeded(p) =>
    ((mResult[p].summary.systemStatus = "HEALTHY") <=> (mResult[p].alerts = << >>))

\* C23: a run that returns success:false leaves the history as it was when
\* the run started: no check appended, checks and totalChecks unchanged.
C23_FailedRunLeavesHistory ==
  \A p \in Runners : (mpc[p] = "done" /\ ~mResult[p].success) =>
    /\ Len(appended) = mBase[p].appended
    /\ HistoryBase = mBase[p]

\* C24: a call of initializeLogs that finds the history file leaves it as
\* it is, so that a second call changes nothing the first one wrote; and the
\* startTime of a history is never rewritten.
C24_InitializeKeepsHistory ==
  [][/\ \A p \in Runners :
          (mpc[p] = "init" /\ mpc'[p] # "init" /\ logFile.kind # "absent")
            => logFile' = logFile
     /\ (logFile.kind = "json" /\ logFile'.kind = "json")
          => logFile'.startTime = logFile.startTime]_vars

\* C24 witness: the second run has called initializeLogs and the history
\* still holds the check of the first run.
C24_Witness ==
  /\ runs = 2
  /\ mpc[1] = "metrics"
  /\ logFile.kind = "json"
  /\ Len(logFile.checks) = 1
  /\ logFile.metrics.totalChecks = 1
  /\ logFile.checks = appended

\* C25: while the history file exists and cannot be parsed, no step changes
\* it, appends a check or writes the report, and every run that has
\* returned has returned success:false.
C25_CorruptHistoryStays ==
  /\ [][logFile.kind = "corrupt" =>
          /\ logFile' = logFile
          /\ appended' = appended
          /\ reportFile' = reportFile]_vars
  /\ [](logFile.kind = "corrupt" =>
          \A p \in Runners : mpc[p] = "done" => ~mResult[p].success)

\* C25 witness: a run that started after the file had become unparseable
\* collected its metrics and failed in logCheck's JSON.parse.
C25_Witness ==
  /\ logFile.kind = "corrupt"
  /\ runs = 2
  /\ mpc[1] = "done"
  /\ mSource[1] = "measured"
  /\ ~mResult[1].success
  /\ mResult[1].error = "readFileSync/JSON.parse"

\* The OS readings from which getSystemMetrics can have computed the system
\* metrics now in the response.
ReadingsBehindResponse ==
  {in \in MetricInputs : ~in.statfsThrows /\ GetSystemMetrics(in) = ReportedSystem}

\* C26: the health in a response of /api/status or /api/system is critical
\* iff the used share of memory or the CPU usage exceeds 90 percent, warning
\* iff it is not critical and one of them exceeds 70 percent, and healthy
\* otherwise, whatever the disk usage and the outcomes of the probes.
C26_HealthThresholds ==
  (dpc = "responded" /\ resp.kind \in {"snapshot", "metrics"}) =>
    \A in \in ReadingsBehindResponse :
      LET used     == in.mem.totalMem - in.mem.freeMem
          cpu      == CpuUsage(in.cpus)
          critical == 100 * used > 90 * in.mem.totalMem \/ cpu.num > 90 * cpu.den
          warning  == /\ ~critical
                      /\ 100 * used > 70 * in.mem.totalMem \/ cpu.num > 70 * cpu.den
      IN  /\ ReportedSystem.health \in {"healthy", "warning", "critical"}
          /\ (ReportedSystem.health = "critical") <=> critical
          /\ (ReportedSystem.health = "warning") <=> warning
          /\ (ReportedSystem.health = "healthy") <=> (~critical /\ ~warning)

=============================================================================
